---- MODULE Spec2Model ----
(***************************************************************************)
(* Model of starter's main.go: the template cache synchronisation          *)
(* (getTempaltes / downloadTemplates / downloadSingleFile), the generation *)
(* pipeline (analyze) and the two front ends of main (one-shot CLI and     *)
(* daemon with the signal handshake).                                      *)
(***************************************************************************)
EXTENDS Integers, Sequences, FiniteSets, TLC

\* ------------------------------------------------------------------ bounds
\* Highest manifest version the remote ever serves.
MaxVersion == 2
\* Number of times the sync harness calls getTempaltes in SpecSync.
MaxSyncCalls == 3
\* Number of pipeline runs the process can have in flight.
MaxRuns == 2
\* Largest number of operations of a pack that fail.
MaxFailing == 2
\* Number of interrupt signals the OS delivers to the daemon.
MaxInterrupts == 2

\* ------------------------------------------------------- remote manifest
\* File contents are abstracted to integers: 0 = no such file, Truncated = a
\* file created by os.Create whose io.Copy failed, v >= 1 = the bytes the
\* remote served while its manifest was at version v.
Absent == 0
Truncated == -1

ManifestFile == "templates.json"

\* templateDefinition.Dockerfiles of the manifest at version v
Dockerfiles(v) == IF v % 2 = 1 THEN <<"d1">> ELSE <<"d1", "d2">>
\* templateDefinition.ServiceYmls of the manifest at version v
ServiceYmls(v) == <<"s1">>
\* templateDefinition.DockerComposeYmls of the manifest at version v
DockerComposeYmls(v) == <<"c1">>

\* Mutant: the loop over DockerComposeYmls is missing.
EntriesMut(v) == Dockerfiles(v) \o ServiceYmls(v)

\* The order in which downloadTemplates walks the three entry lists.
Entries(v) == Dockerfiles(v) \o ServiceYmls(v) \o DockerComposeYmls(v)

Range(s) == {s[i] : i \in 1..Len(s)}

FileNames == {ManifestFile, "d1", "d2", "s1", "c1"}

EmptyCache == [f \in FileNames |-> Absent]

VARIABLES
    remoteVersion,   \* version of the manifest the remote serves now
    cacheDir,        \* TRUE when the cache directory exists
    cache,           \* file name -> content of the cache directory
    sync,            \* the running getTempaltes call
    syncCalls,       \* number of getTempaltes calls made by the sync harness
    run,             \* run id -> the activation of analyze() of that run
    proj,            \* run id -> file name -> content of its project directory
    tdirs,           \* the package-level template directories (lines 59-61)
    main,            \* main(): position, flags and exit code
    signalChan,      \* number of signals buffered in signalChan (capacity 1)
    sigTask,         \* position of the goroutine of lines 241-246
    interrupts,      \* number of interrupt signals the OS delivered
    start            \* the cache and project directories at process start

syncVars == <<remoteVersion, cacheDir, cache, sync, syncCalls>>
runVars == <<run, proj, tdirs>>
daemonVars == <<signalChan, sigTask, interrupts>>
vars == <<remoteVersion, cacheDir, cache, sync, syncCalls, run, proj, tdirs,
          main, signalChan, sigTask, interrupts, start>>

\* A getTempaltes activation: position, locals and what it did so far.
SyncIdle ==
    [pc |-> "idle", tv |-> 0, call |-> 0, idx |-> 0, err |-> "",
     manifestFetches |-> 0, localReads |-> 0, entryFetches |-> 0,
     dlCalls |-> 0, written |-> {}, mkdir |-> FALSE,
     before |-> EmptyCache, beforeDir |-> FALSE, prevTv |-> 0]

\* getTempaltes is entered: line 91-92.  before/beforeDir remember the
\* directory as the call found it, prevTv the manifest version of the call
\* before it when that call returned nil (0 otherwise).
SyncStart ==
    [SyncIdle EXCEPT !.pc = "fetchJSON", !.before = cache,
                     !.beforeDir = cacheDir,
                     !.prevTv = IF sync.pc = "done" /\ sync.err = ""
                                THEN sync.tv ELSE 0]

SyncFail(e) == [sync EXCEPT !.pc = "done", !.err = e]

\* Lines 94-98: fetch and parse the remote manifest into tv.
FetchJSON ==
    /\ sync.pc = "fetchJSON"
    /\ \/ sync' = [sync EXCEPT !.pc = "stat", !.tv = remoteVersion,
                               !.manifestFetches = @ + 1]
       \/ sync' = SyncFail("fetchJSON")
    /\ UNCHANGED <<start, remoteVersion, cacheDir, cache, syncCalls, runVars, main, daemonVars>>

\* Mutant: the local copy is never found.
IsNotExistMut(c) == TRUE

\* Line 101: os.IsNotExist(err) of os.Stat on a file with content c.
IsNotExist(c) == c = Absent

\* Line 101: os.Stat(templates.json); os.IsNotExist selects the first download.
StatLocal ==
    /\ sync.pc = "stat"
    /\ sync' = [sync EXCEPT !.pc = IF IsNotExist(cache[ManifestFile])
                                   THEN "mkdir" ELSE "read"]
    /\ UNCHANGED <<start, remoteVersion, cacheDir, cache, syncCalls, runVars, main, daemonVars>>

\* Lines 104-109: os.MkdirAll(tempDir), then downloadTemplates(tempDir, tv).
MkdirAll ==
    /\ sync.pc = "mkdir"
    /\ \/ /\ cacheDir' = TRUE
          /\ sync' = [sync EXCEPT !.pc = "dlManifest", !.call = 1,
                                  !.dlCalls = @ + 1, !.mkdir = TRUE]
       \/ /\ ~cacheDir
          /\ sync' = SyncFail("mkdir")
          /\ UNCHANGED cacheDir
    /\ UNCHANGED <<start, remoteVersion, cache, syncCalls, runVars, main, daemonVars>>

\* downloadSingleFile, lines 171-190: fetch the URL, os.Create the file,
\* io.Copy the body.  Outcomes: "ok", or the failing call.
DownloadOutcomes == {"ok", "fetch", "create", "copy"}

\* Mutant: a failed download removes what the directory held.
DownloadSingleFileMut(name, o) ==
    IF o = "ok" THEN [cache EXCEPT ![name] = remoteVersion] ELSE EmptyCache

\* The directory after downloadSingleFile(tempDir, name) ended with outcome o.
DownloadSingleFile(name, o) ==
    CASE o = "ok"   -> [cache EXCEPT ![name] = remoteVersion]
      [] o = "copy" -> [cache EXCEPT ![name] = Truncated]
      [] OTHER      -> cache

\* Where downloadTemplates goes after entry idx-1 was written.
AfterEntry(s, i) ==
    IF i <= Len(Entries(s.tv))
    THEN [s EXCEPT !.pc = "dlEntry", !.idx = i]
    ELSE IF s.call = 1
         THEN [s EXCEPT !.pc = "read", !.idx = 0]
         ELSE [s EXCEPT !.pc = "done", !.idx = 0]

\* Lines 142-145: downloadTemplates first downloads templates.json itself
\* from the manifest URL.
DownloadManifest ==
    /\ sync.pc = "dlManifest"
    /\ \E o \in DownloadOutcomes :
         /\ cache' = DownloadSingleFile(ManifestFile, o)
         /\ LET s1 == [sync EXCEPT !.manifestFetches = @ + 1,
                          !.written = IF o \in {"ok", "copy"}
                                      THEN @ \cup {ManifestFile} ELSE @]
            IN sync' = IF o = "ok" THEN AfterEntry(s1, 1)
                       ELSE [s1 EXCEPT !.pc = "done", !.err = o]
    /\ UNCHANGED <<start, remoteVersion, cacheDir, syncCalls, runVars, main, daemonVars>>

\* Lines 147-166: the three range loops, one downloadSingleFile per entry of
\* td, stopping at the first error.
DownloadEntry ==
    /\ sync.pc = "dlEntry"
    /\ \E o \in DownloadOutcomes :
         LET name == Entries(sync.tv)[sync.idx]
             s1 == [sync EXCEPT !.entryFetches = @ + 1,
                       !.written = IF o \in {"ok", "copy"}
                                   THEN @ \cup {name} ELSE @]
         IN /\ cache' = DownloadSingleFile(name, o)
            /\ sync' = IF o = "ok" THEN AfterEntry(s1, sync.idx + 1)
                       ELSE [s1 EXCEPT !.pc = "done", !.err = o]
    /\ UNCHANGED <<start, remoteVersion, cacheDir, syncCalls, runVars, main, daemonVars>>

\* Mutant: the versions always count as different.
VersionsDifferMut(localVersion, remote) == TRUE

\* Line 127: localTv.Version != tv.Version
VersionsDiffer(localVersion, remote) == localVersion # remote

\* Lines 116-136: read and parse the local manifest, compare the versions.
\* A truncated templates.json does not parse.
ReadLocal ==
    /\ sync.pc = "read"
    /\ \/ sync' = SyncFail("readFile")
       \/ /\ cache[ManifestFile] = Truncated
          /\ sync' = [SyncFail("unmarshal") EXCEPT !.localReads = @ + 1]
       \/ /\ cache[ManifestFile] >= 1
          /\ VersionsDiffer(cache[ManifestFile], sync.tv)
          /\ sync' = [sync EXCEPT !.pc = "dlManifest", !.call = 2,
                                  !.dlCalls = @ + 1, !.localReads = @ + 1]
       \/ /\ cache[ManifestFile] >= 1
          /\ ~VersionsDiffer(cache[ManifestFile], sync.tv)
          /\ sync' = [sync EXCEPT !.pc = "done", !.localReads = @ + 1]
    /\ UNCHANGED <<start, remoteVersion, cacheDir, cache, syncCalls, runVars, main, daemonVars>>

\* One step of getTempaltes.
SyncStep ==
    \/ FetchJSON
    \/ StatLocal
    \/ MkdirAll
    \/ DownloadManifest
    \/ DownloadEntry
    \/ ReadLocal

\* The remote repository publishes a new manifest version.
RemoteUpdate ==
    /\ main.pc # "exited"
    /\ remoteVersion < MaxVersion
    /\ remoteVersion' = remoteVersion + 1
    /\ UNCHANGED <<start, cacheDir, cache, sync, syncCalls, runVars, main, daemonVars>>

\* A caller invokes getTempaltes(tempDir) (line 310) on the cache as the
\* previous call left it.
SyncCall ==
    /\ sync.pc \in {"idle", "done"}
    /\ syncCalls < MaxSyncCalls
    /\ syncCalls' = syncCalls + 1
    /\ sync' = SyncStart
    /\ UNCHANGED <<start, remoteVersion, cacheDir, cache, runVars, main, daemonVars>>

\* ------------------------------------------------------------- analyze()
RunIds == 1..MaxRuns
\* The first run of the process: the one main() makes in one-shot mode
\* (line 252).
CLIRun == 1

ProjFiles == {"Dockerfile", "service.yml", "docker-compose.yml"}
\* Project file contents: Absent, Old (there before the run) or Written (by
\* one of the collaborator's writers).
Old == 1
Written == 2

\* The directory homedir.Dir() + ".starter" of lines 306-308.
HomeCache == "~/.starter"
\* os.Getwd()
Cwd == "/cwd"
\* filepath.Abs of the relative directory names the model uses.
Abs(t) == CASE t = "tplA" -> "/cwd/tplA"
            [] t = "tplB" -> "/cwd/tplB"
            [] OTHER -> t

\* The fallible operations of the pack that Detect returns, in pipeline order.
PackOps == {"Analyze", "WriteDockerfile", "WriteServiceYAML",
            "WriteDockerComposeYAML"}

\* Strings the code searches are sequences of characters.
Chars(w) ==
    CASE w = "dockerfile" -> <<"d","o","c","k","e","r","f","i","l","e">>
      [] w = "service" -> <<"s","e","r","v","i","c","e">>
      [] w = "docker-compose" ->
           <<"d","o","c","k","e","r","-","c","o","m","p","o","s","e">>
      [] w = "nonservice" -> <<"n","o","n","s","e","r","v","i","c","e">>

RECURSIVE JoinComma(_)
\* The -g flag value spelled by a sequence of tokens: tokens joined by ",".
JoinComma(ts) ==
    IF Len(ts) = 0 THEN <<>>
    ELSE IF Len(ts) = 1 THEN Chars(ts[1])
    ELSE Chars(ts[1]) \o <<",">> \o JoinComma(Tail(ts))

\* strings.Contains(s, substr)
StringsContains(s, substr) ==
    \E i \in 0..(Len(s) - Len(substr)) :
        SubSeq(s, i + 1, i + Len(substr)) = substr

\* Mutant: the compose test searches for "docker".
WantsComposeMut(generator) ==
    StringsContains(generator, <<"d", "o", "c", "k", "e", "r">>)

\* Lines 365 and 372: which optional writers the generator string selects.
WantsService(generator) == StringsContains(generator, Chars("service"))
WantsCompose(generator) == StringsContains(generator, Chars("docker-compose"))

RunIdle ==
    [pc |-> "idle", updateTemplates |-> FALSE, path |-> "", templates |-> "",
     overwrite |-> FALSE, generator |-> <<>>, detectFails |-> FALSE,
     failing |-> {},
     resolved |-> "", messages |-> <<>>, warnings |-> <<>>,
     err |-> "", ok |-> FALSE, hasResult |-> FALSE, steps |-> <<>>,
     used |-> <<>>]

\* analyze(updateTemplates, path, templates, _, _, overwrite, generator) is
\* entered by run r; detectFails, whether Detect fails on this run's project,
\* is kept.
RunStart(r, u, p, t, o, g) ==
    [RunIdle EXCEPT !.pc = "getwd", !.updateTemplates = u, !.path = p,
                    !.templates = t, !.overwrite = o, !.generator = g,
                    !.detectFails = run[r].detectFails]

Alive == main.pc # "exited"

\* return nil, err
RunFail(r, step, e) ==
    [run EXCEPT ![r].pc = "returned", ![r].err = e,
                ![r].steps = Append(@, step)]

RunGoto(r, step, next) ==
    [run EXCEPT ![r].pc = next, ![r].steps = Append(@, step)]

\* Lines 294-302: default the project path to the working directory.
Getwd(r) ==
    /\ Alive /\ run[r].pc = "getwd"
    /\ \/ /\ run[r].path # ""
          /\ run' = [run EXCEPT ![r].pc = "resolve"]
       \/ /\ run[r].path = ""
          /\ run' = [run EXCEPT ![r].pc = "resolve", ![r].path = Cwd]
       \/ /\ run[r].path = ""
          /\ run' = RunFail(r, "INIT", "getwd")
    /\ UNCHANGED <<start, syncVars, proj, tdirs, main, daemonVars>>

AllDirs(d) == [dockerfile |-> d, serviceYAML |-> d, dockerCompose |-> d]

\* Mutant: getTempaltes is called whatever updateTemplates says.
ResolveTemplatesMut(r) ==
    /\ Alive /\ run[r].pc = "resolve"
    /\ \/ /\ run[r].templates = ""
          /\ run' = [RunGoto(r, "RESOLVE_TEMPLATES", "sync")
                       EXCEPT ![r].templates = HomeCache]
          /\ sync' = SyncStart
       \/ /\ run[r].templates # ""
          /\ run' = [RunGoto(r, "RESOLVE_TEMPLATES", "setDockerfileDir")
                       EXCEPT ![r].resolved = Abs(run[r].templates)]
          /\ UNCHANGED sync
       \/ /\ run[r].templates # ""
          /\ run' = RunFail(r, "RESOLVE_TEMPLATES", "abs")
          /\ UNCHANGED sync
    /\ UNCHANGED <<start, remoteVersion, cacheDir, cache, syncCalls, proj, tdirs,
                   main, daemonVars>>

\* Lines 305-329 up to the assignments of the package variables: an explicit
\* template directory is made absolute (in a variable that shadows the
\* argument, line 322); without one the cache directory is used, after
\* getTempaltes when updateTemplates is set.
ResolveTemplates(r) ==
    /\ Alive /\ run[r].pc = "resolve"
    /\ \/ /\ run[r].templates = "" /\ run[r].updateTemplates
          /\ run' = [RunGoto(r, "RESOLVE_TEMPLATES", "sync")
                       EXCEPT ![r].templates = HomeCache]
          /\ sync' = SyncStart
       \/ /\ run[r].templates = "" /\ ~run[r].updateTemplates
          /\ run' = [RunGoto(r, "RESOLVE_TEMPLATES", "setDockerfileDir")
                       EXCEPT ![r].templates = HomeCache,
                              ![r].resolved = HomeCache]
          /\ UNCHANGED sync
       \/ /\ run[r].templates # ""
          /\ run' = [RunGoto(r, "RESOLVE_TEMPLATES", "setDockerfileDir")
                       EXCEPT ![r].resolved = Abs(run[r].templates)]
          /\ UNCHANGED sync
       \/ /\ run[r].templates # ""
          /\ run' = RunFail(r, "RESOLVE_TEMPLATES", "abs")
          /\ UNCHANGED sync
    /\ UNCHANGED <<start, remoteVersion, cacheDir, cache, syncCalls, proj, tdirs,
                   main, daemonVars>>

\* Mutant: the error of getTempaltes is not checked.
SyncReturnMut(r) ==
    /\ Alive /\ run[r].pc = "sync" /\ sync.pc = "done"
    /\ run' = [run EXCEPT ![r].pc = "setDockerfileDir",
                          ![r].resolved = run[r].templates]
    /\ UNCHANGED <<start, syncVars, proj, tdirs, main, daemonVars>>

\* Lines 310-314: getTempaltes returned.
SyncReturn(r) ==
    /\ Alive /\ run[r].pc = "sync" /\ sync.pc = "done"
    /\ \/ /\ sync.err # ""
          /\ run' = [run EXCEPT ![r].pc = "returned", ![r].err = "sync"]
       \/ /\ sync.err = ""
          /\ run' = [run EXCEPT ![r].pc = "setDockerfileDir",
                                ![r].resolved = run[r].templates]
    /\ UNCHANGED <<start, syncVars, proj, tdirs, main, daemonVars>>

\* Lines 316 and 326: dockerfileTemplateDir = templates.  The three package
\* variables are assigned by separate statements, without synchronisation.
SetDockerfileDir(r) ==
    /\ Alive /\ run[r].pc = "setDockerfileDir"
    /\ tdirs' = [tdirs EXCEPT !.dockerfile = run[r].resolved]
    /\ run' = [run EXCEPT ![r].pc = "setServiceDir"]
    /\ UNCHANGED <<start, syncVars, proj, main, daemonVars>>

\* Lines 317 and 327: serviceYAMLTemplateDir = templates.
SetServiceDir(r) ==
    /\ Alive /\ run[r].pc = "setServiceDir"
    /\ tdirs' = [tdirs EXCEPT !.serviceYAML = run[r].resolved]
    /\ run' = [run EXCEPT ![r].pc = "setComposeDir"]
    /\ UNCHANGED <<start, syncVars, proj, main, daemonVars>>

\* Lines 318 and 328: dockerComposeYAMLTemplateDir = templates.
SetComposeDir(r) ==
    /\ Alive /\ run[r].pc = "setComposeDir"
    /\ tdirs' = [tdirs EXCEPT !.dockerCompose = run[r].resolved]
    /\ run' = [run EXCEPT ![r].pc = "detect"]
    /\ UNCHANGED <<start, syncVars, proj, main, daemonVars>>

\* The packs Detect can return, each described by the set of its operations
\* that fail; the packs of the daemon's requests do not fail.
PackBehaviours ==
    IF main.flagDaemon THEN {{}}
    ELSE {f \in SUBSET PackOps : Cardinality(f) <= MaxFailing}

\* An operation of the pack may add a message to those GetMessages returns:
\* the runs after a call that leads to rn.  The packs of the daemon's
\* requests add none.
PackEmits(r, rn, m) ==
    IF main.flagDaemon THEN {rn}
    ELSE {rn, [rn EXCEPT ![r].messages = Append(@, m)]}

\* Mutant: the error of Detect is not checked.
DetectMut(r) ==
    /\ Alive /\ run[r].pc = "detect"
    /\ \E f \in PackBehaviours :
         run' = [RunGoto(r, "DETECT", "statDockerfile") EXCEPT ![r].failing = f]
    /\ UNCHANGED <<start, syncVars, proj, tdirs, main, daemonVars>>

\* Lines 333-336: Detect(path) returns the pack or an error.
Detect(r) ==
    /\ Alive /\ run[r].pc = "detect"
    /\ \/ /\ run[r].detectFails
          /\ run' = RunFail(r, "DETECT", "detect")
       \/ /\ ~run[r].detectFails
          /\ \E f \in PackBehaviours :
               run' = [RunGoto(r, "DETECT", "statDockerfile")
                         EXCEPT ![r].failing = f]
    /\ UNCHANGED <<start, syncVars, proj, tdirs, main, daemonVars>>

\* Mutant: only the Dockerfile is looked for.
StatOKMut(r, f) == f = "Dockerfile" /\ proj[r][f] # Absent

\* os.Stat(p) returned a nil error
StatOK(r, f) == proj[r][f] # Absent

\* Lines 339-345: the Dockerfile half of the overwrite guard.
StatDockerfile(r) ==
    /\ Alive /\ run[r].pc = "statDockerfile"
    /\ run' = IF StatOK(r, "Dockerfile") /\ ~run[r].overwrite
              THEN RunFail(r, "PRECHECK", "DockerfileExists")
              ELSE RunGoto(r, "PRECHECK", "statServiceYAML")
    /\ UNCHANGED <<start, syncVars, proj, tdirs, main, daemonVars>>

\* Lines 347-353: the service.yml half of the overwrite guard.
StatServiceYAML(r) ==
    /\ Alive /\ run[r].pc = "statServiceYAML"
    /\ run' = IF StatOK(r, "service.yml") /\ ~run[r].overwrite
              THEN [run EXCEPT ![r].pc = "returned",
                               ![r].err = "ServiceYmlExists"]
              ELSE [run EXCEPT ![r].pc = "analyze"]
    /\ UNCHANGED <<start, syncVars, proj, tdirs, main, daemonVars>>

\* Lines 355-358: pack.Analyze.
Analyze(r) ==
    /\ Alive /\ run[r].pc = "analyze"
    /\ run' \in PackEmits(r, IF "Analyze" \in run[r].failing
                               THEN RunFail(r, "ANALYZE", "analyze")
                               ELSE RunGoto(r, "ANALYZE", "writeDockerfile"),
                           "analyze")
    /\ UNCHANGED <<start, syncVars, proj, tdirs, main, daemonVars>>

\* The statement reached after the Dockerfile was written (line 365).
AfterDockerfile(generator) ==
    IF WantsService(generator) THEN "writeService"
    ELSE IF WantsCompose(generator) THEN "writeCompose"
    ELSE "collect"

\* The statement reached after service.yml was written (line 372).
AfterService(generator) ==
    IF WantsCompose(generator) THEN "writeCompose" ELSE "collect"

\* Mutant: the writer's error is not checked.
CallWriterMut(r, step, d, op, e, next) ==
    [run EXCEPT ![r].used = Append(@, <<step, d>>), ![r].pc = next,
                ![r].steps = Append(@, step)]

\* A writer of the collaborator is called with template directory d.
CallWriter(r, step, d, op, e, next) ==
    LET u == [run EXCEPT ![r].used = Append(@, <<step, d>>)]
    IN IF op \in run[r].failing
       THEN [u EXCEPT ![r].pc = "returned", ![r].err = e,
                      ![r].steps = Append(@, step)]
       ELSE [u EXCEPT ![r].pc = next, ![r].steps = Append(@, step)]

\* What a writer leaves in the project directory.
WriterEffect(r, op, f) ==
    IF op \in run[r].failing THEN proj
    ELSE [proj EXCEPT ![r][f] = Written]

\* Lines 360-363: pack.WriteDockerfile(dockerfileTemplateDir, path, ...).
WriteDockerfile(r) ==
    /\ Alive /\ run[r].pc = "writeDockerfile"
    /\ run' \in PackEmits(r, CallWriter(r, "WRITE_DOCKERFILE", tdirs.dockerfile,
                                         "WriteDockerfile", "writeDockerfile",
                                         AfterDockerfile(run[r].generator)),
                           "dockerfile")
    /\ proj' = WriterEffect(r, "WriteDockerfile", "Dockerfile")
    /\ UNCHANGED <<start, syncVars, tdirs, main, daemonVars>>

\* Lines 365-370: pack.WriteServiceYAML(serviceYAMLTemplateDir, path, ...).
WriteServiceYAML(r) ==
    /\ Alive /\ run[r].pc = "writeService"
    /\ run' \in PackEmits(r, CallWriter(r, "WRITE_SERVICE", tdirs.serviceYAML,
                                         "WriteServiceYAML", "writeService",
                                         AfterService(run[r].generator)),
                           "service")
    /\ proj' = WriterEffect(r, "WriteServiceYAML", "service.yml")
    /\ UNCHANGED <<start, syncVars, tdirs, main, daemonVars>>

\* Lines 372-377: pack.WriteDockerComposeYAML(dockerComposeYAMLTemplateDir,
\* path, ...).
WriteDockerComposeYAML(r) ==
    /\ Alive /\ run[r].pc = "writeCompose"
    /\ run' \in PackEmits(r, CallWriter(r, "WRITE_COMPOSE", tdirs.dockerCompose,
                                         "WriteDockerComposeYAML",
                                         "writeCompose", "collect"),
                           "compose")
    /\ proj' = WriterEffect(r, "WriteDockerComposeYAML", "docker-compose.yml")
    /\ UNCHANGED <<start, syncVars, tdirs, main, daemonVars>>

\* Mutant: only the first message is copied.
CollectWarningsMut(ws, ms) == IF Len(ms) > 0 THEN Append(ws, ms[1]) ELSE ws

RECURSIVE AppendEach(_, _)
\* Lines 380-382: the range loop appending each message to result.Warnings.
AppendEach(ws, ms) ==
    IF ms = <<>> THEN ws ELSE AppendEach(Append(ws, Head(ms)), Tail(ms))

\* Lines 379-383: result.Warnings after the messages ms of pack.GetMessages()
\* were collected into the warnings ws.
CollectWarnings(ws, ms) == IF Len(ms) > 0 THEN AppendEach(ws, ms) ELSE ws

\* Lines 379-390: fill in the result and return it with a nil error.
ReturnResult(r) ==
    /\ Alive /\ run[r].pc = "collect"
    /\ run' = [run EXCEPT ![r].pc = "returned", ![r].ok = TRUE,
                          ![r].hasResult = TRUE,
                          ![r].warnings =
                              CollectWarnings(@, run[r].messages),
                          ![r].steps = Append(@, "DONE")]
    /\ UNCHANGED <<start, syncVars, proj, tdirs, main, daemonVars>>

RunStep(r) ==
    \/ Getwd(r)
    \/ ResolveTemplates(r)
    \/ SyncReturn(r)
    \/ SetDockerfileDir(r)
    \/ SetServiceDir(r)
    \/ SetComposeDir(r)
    \/ Detect(r)
    \/ StatDockerfile(r)
    \/ StatServiceYAML(r)
    \/ Analyze(r)
    \/ WriteDockerfile(r)
    \/ WriteServiceYAML(r)
    \/ WriteDockerComposeYAML(r)
    \/ ReturnResult(r)

\* ------------------------------------------------------------------ main()
\* main.exit while the process runs.
NoExit == -1

\* The -g values the model draws from: token lists joined by commas.
GeneratorTokens ==
    {<<>>, <<"dockerfile">>, <<"service">>, <<"docker-compose">>,
     <<"dockerfile", "service">>, <<"docker-compose", "dockerfile">>,
     <<"dockerfile", "service", "docker-compose">>, <<"nonservice">>}
Generators == {JoinComma(t) : t \in GeneratorTokens}

\* The cache directory after a complete download of version v.
CompleteCache(v) ==
    [f \in FileNames |->
        IF f = ManifestFile \/ f \in Range(Entries(v)) THEN v ELSE Absent]

\* The cache directory an earlier download of version v left when its first
\* entry download failed (lines 147-151).
InterruptedCache(v) == [EmptyCache EXCEPT ![ManifestFile] = v]
\* The cache directory an earlier download left when io.Copy of
\* templates.json failed (lines 184-187).
TruncatedCache == [EmptyCache EXCEPT ![ManifestFile] = Truncated]

MainExit(code) == [main EXCEPT !.pc = "exited", !.exit = code]

\* Lines 195-204: help and version print and return.
MainHelp ==
    /\ main.pc = "start" /\ main.cmd \in {"help", "version"}
    /\ main' = MainExit(0)
    /\ UNCHANGED <<start, syncVars, runVars, daemonVars>>

\* Lines 206-223, else branch: flag.Parse and config.SetDefaults.
MainSetDefaults ==
    /\ main.pc = "start" /\ main.cmd = "run"
    /\ ~(main.flagDaemon /\ main.flagConfig # "")
    /\ main' = [main EXCEPT !.pc = IF main.flagDaemon THEN "daemonInit"
                                   ELSE "analyze"]
    /\ UNCHANGED <<start, syncVars, runVars, daemonVars>>

\* Lines 252-259: the one-shot call of analyze with the flag values.
MainAnalyze ==
    /\ main.pc = "analyze"
    /\ main' = [main EXCEPT !.pc = "analyzing"]
    /\ run' = [run EXCEPT ![CLIRun] =
                 RunStart(CLIRun, TRUE, main.flagPath, main.flagTemplates,
                          main.flagOverwrite, main.flagGenerator)]
    /\ UNCHANGED <<start, syncVars, proj, tdirs, daemonVars>>

\* Lines 261-283: exit 1 on an error, otherwise print and return.
MainAfterAnalyze ==
    /\ main.pc = "analyzing" /\ run[CLIRun].pc = "returned"
    /\ main' = IF run[CLIRun].err # "" THEN MainExit(1) ELSE MainExit(0)
    /\ UNCHANGED <<start, syncVars, runVars, daemonVars>>

MainFlags(cmd, d, c, p, t, o, g) ==
    [pc |-> "start", exit |-> NoExit, killed |-> FALSE, notify |-> FALSE,
     cmd |-> cmd, flagDaemon |-> d, flagConfig |-> c, flagPath |-> p,
     flagTemplates |-> t, flagOverwrite |-> o, flagGenerator |-> g]

InitProj(d, s) ==
    [r \in RunIds |-> [f \in ProjFiles |->
        IF r = CLIRun /\ f = "Dockerfile" THEN d
        ELSE IF r = CLIRun /\ f = "service.yml" THEN s
        ELSE Absent]]

InitDaemonVars ==
    /\ signalChan = 0
    /\ sigTask = "none"
    /\ interrupts = 0
    /\ start = [cacheDir |-> cacheDir, cache |-> cache, proj |-> proj]

\* One-shot mode: the process starts with any flags, project directory,
\* cache directory and collaborator behaviour.
Init ==
    /\ remoteVersion = 1
    /\ \/ cacheDir = FALSE /\ cache = EmptyCache
       \/ cacheDir = TRUE /\ cache \in {CompleteCache(1), InterruptedCache(1),
                                         TruncatedCache}
    /\ sync = SyncIdle
    /\ syncCalls = 0
    /\ \E df \in BOOLEAN :
         run = [r \in RunIds |-> IF r = CLIRun
                                 THEN [RunIdle EXCEPT !.detectFails = df]
                                 ELSE RunIdle]
    /\ \E d \in {Absent, Old}, s \in {Absent, Old} : proj = InitProj(d, s)
    /\ tdirs = AllDirs("")
    /\ \/ \E cmd \in {"help", "version"} :
            main = MainFlags(cmd, FALSE, "", "", "", FALSE, Chars("dockerfile"))
       \/ \E p \in {"", "proj"}, t \in {"", "tplA"}, o \in BOOLEAN,
             g \in Generators :
            main = MainFlags("run", FALSE, "", p, t, o, g)
    /\ InitDaemonVars

Next ==
    \/ MainHelp
    \/ MainSetDefaults
    \/ MainAnalyze
    \/ RunStep(CLIRun)
    \/ SyncStep
    \/ RemoteUpdate
    \/ MainAfterAnalyze

Spec == Init /\ [][Next]_vars

\* ----------------------------------------------------------- daemon mode
\* Lines 208-220: with -daemon and -c the configuration file is loaded; a
\* missing path or an unreadable file exits with code 1.
MainLoadConfig ==
    /\ main.pc = "start" /\ main.cmd = "run"
    /\ main.flagDaemon /\ main.flagConfig # ""
    /\ \/ main' = MainExit(1)
       \/ main' = [main EXCEPT !.pc = "daemonInit"]
    /\ UNCHANGED <<start, syncVars, runVars, daemonVars>>

\* Lines 229-232: the channels are made and signal.Notify registers
\* signalChan for os.Interrupt.
MainNotify ==
    /\ main.pc = "daemonInit"
    /\ main' = [main EXCEPT !.pc = "startAPI", !.notify = TRUE]
    /\ UNCHANGED <<start, syncVars, runVars, daemonVars>>

\* Lines 234-239: NewAPI(config).StartAPI(); an error exits with code 1.
MainStartAPI ==
    /\ main.pc = "startAPI"
    /\ \/ main' = [main EXCEPT !.pc = "spawn"]
       \/ main' = MainExit(1)
    /\ UNCHANGED <<start, syncVars, runVars, daemonVars>>

\* Lines 241-246: the goroutine ranging over signalChan is started.
MainSpawn ==
    /\ main.pc = "spawn"
    /\ main' = [main EXCEPT !.pc = "wait"]
    /\ sigTask' = "range"
    /\ UNCHANGED <<start, syncVars, runVars, signalChan, interrupts>>

\* Lines 242-243: the goroutine receives a signal from signalChan.
SigReceive ==
    /\ Alive /\ sigTask = "range" /\ signalChan > 0
    /\ signalChan' = signalChan - 1
    /\ sigTask' = "send"
    /\ UNCHANGED <<start, syncVars, runVars, main, interrupts>>

\* Mutant: main does not wait for the send on cleanupDone.
HandshakeMut ==
    /\ main.pc = "wait"
    /\ sigTask' = "range"
    /\ main' = [main EXCEPT !.pc = "exit0"]
    /\ UNCHANGED <<start, syncVars, runVars, signalChan, interrupts>>

\* Lines 244 and 248: cleanupDone is unbuffered, so the goroutine's send and
\* main's receive happen together.
Handshake ==
    /\ sigTask = "send" /\ main.pc = "wait"
    /\ sigTask' = "range"
    /\ main' = [main EXCEPT !.pc = "exit0"]
    /\ UNCHANGED <<start, syncVars, runVars, signalChan, interrupts>>

\* Line 249: os.Exit(0).
MainExit0 ==
    /\ main.pc = "exit0"
    /\ main' = MainExit(0)
    /\ UNCHANGED <<start, syncVars, runVars, daemonVars>>

\* Mutant: signalChan is unbuffered, so a signal sent while nobody receives
\* is dropped.
SignalChanCapMut == 1 - 1

\* The capacity of signalChan (line 229).
SignalChanCap == 1

\* The OS delivers an interrupt.  Once signal.Notify registered the channel
\* the runtime makes a non-blocking send on it (a signal is dropped when the
\* buffer is full); before that the default action ends the process.
Interrupt ==
    /\ Alive /\ interrupts < MaxInterrupts
    /\ interrupts' = interrupts + 1
    /\ \/ /\ main.notify
          /\ signalChan' = IF signalChan < SignalChanCap
                           THEN signalChan + 1 ELSE signalChan
          /\ UNCHANGED main
       \/ /\ ~main.notify
          /\ main' = [main EXCEPT !.pc = "exited", !.killed = TRUE]
          /\ UNCHANGED signalChan
    /\ UNCHANGED <<start, syncVars, runVars, sigTask>>

\* The API started by StartAPI is serving.
Listening == main.pc \in {"spawn", "wait", "exit0"}

DaemonTemplates == {"", "tplA", "tplB"}
DaemonGenerators ==
    {JoinComma(<<"dockerfile", "service", "docker-compose">>)}

\* A request handler of the API calls analyze with updateTemplates = false.
APIRequest(r) ==
    /\ Listening /\ run[r].pc = "idle"
    /\ \E t \in DaemonTemplates, g \in DaemonGenerators :
         run' = [run EXCEPT ![r] = RunStart(r, FALSE, "proj", t, TRUE, g)]
    /\ UNCHANGED <<start, syncVars, proj, tdirs, main, daemonVars>>

InitDaemon ==
    /\ remoteVersion = 1
    /\ cacheDir = TRUE /\ cache = CompleteCache(1)
    /\ sync = SyncIdle
    /\ syncCalls = 0
    /\ run = [r \in RunIds |-> RunIdle]
    /\ proj = InitProj(Absent, Absent)
    /\ tdirs = AllDirs("")
    /\ \E c \in {"", "conf"} :
         main = MainFlags("run", TRUE, c, "", "", FALSE, Chars("dockerfile"))
    /\ InitDaemonVars

DaemonRunStep(r) ==
    \/ Getwd(r)
    \/ ResolveTemplates(r)
    \/ SetDockerfileDir(r)
    \/ SetServiceDir(r)
    \/ SetComposeDir(r)
    \/ Detect(r)
    \/ StatDockerfile(r)
    \/ StatServiceYAML(r)
    \/ Analyze(r)
    \/ WriteDockerfile(r)
    \/ WriteServiceYAML(r)
    \/ WriteDockerComposeYAML(r)
    \/ ReturnResult(r)

NextDaemon ==
    \/ MainSetDefaults
    \/ MainLoadConfig
    \/ MainNotify
    \/ MainStartAPI
    \/ MainSpawn
    \/ Interrupt
    \/ SigReceive
    \/ Handshake
    \/ MainExit0
    \/ \E r \in RunIds : APIRequest(r) \/ DaemonRunStep(r)

SpecDaemon == InitDaemon /\ [][NextDaemon]_vars

\* The daemon with one request in flight, for the liveness of the handshake.
NextDaemonOne ==
    \/ MainSetDefaults
    \/ MainLoadConfig
    \/ MainNotify
    \/ MainStartAPI
    \/ MainSpawn
    \/ Interrupt
    \/ SigReceive
    \/ Handshake
    \/ MainExit0
    \/ APIRequest(CLIRun)
    \/ DaemonRunStep(CLIRun)

\* The Go scheduler runs the main goroutine and the signal goroutine whenever
\* they can take a step.
DaemonFairness ==
    /\ WF_vars(MainSpawn)
    /\ WF_vars(SigReceive)
    /\ WF_vars(Handshake)
    /\ WF_vars(MainExit0)

SpecDaemonFair == InitDaemon /\ [][NextDaemonOne]_vars /\ DaemonFairness

\* ------------------------------------------------------- sync on its own
InitSync ==
    /\ remoteVersion = 1
    /\ cacheDir = FALSE
    /\ cache = EmptyCache
    /\ sync = SyncIdle
    /\ syncCalls = 0
    /\ run = [r \in RunIds |-> RunIdle]
    /\ proj = InitProj(Absent, Absent)
    /\ tdirs = AllDirs("")
    /\ main = MainFlags("run", FALSE, "", "", "", FALSE, <<>>)
    /\ InitDaemonVars

NextSync == SyncCall \/ SyncStep \/ RemoteUpdate

SpecSync == InitSync /\ [][NextSync]_vars

\* ---------------------------------------------------- analyze on its own
\* analyze(updateTemplates, path, templates, _, _, overwrite, generator) is
\* called once with any arguments, on any project and cache directory.
InitAnalyze ==
    /\ remoteVersion = 1
    /\ \/ cacheDir = FALSE /\ cache = EmptyCache
       \/ cacheDir = TRUE /\ cache \in {CompleteCache(1), InterruptedCache(1)}
    /\ sync = SyncIdle
    /\ syncCalls = 0
    /\ \E u \in BOOLEAN, p \in {"", "proj"}, t \in {"", "tplA"}, o \in BOOLEAN,
          g \in {Chars("dockerfile"),
                 JoinComma(<<"dockerfile", "service", "docker-compose">>)},
          df \in BOOLEAN :
         run = [r \in RunIds |->
                  IF r = CLIRun
                  THEN [RunIdle EXCEPT !.pc = "getwd", !.updateTemplates = u,
                                       !.path = p, !.templates = t,
                                       !.overwrite = o, !.generator = g,
                                       !.detectFails = df]
                  ELSE RunIdle]
    /\ \E d \in {Absent, Old} : proj = InitProj(d, Absent)
    /\ tdirs = AllDirs("")
    /\ main = MainFlags("run", FALSE, "", "", "", FALSE, <<>>)
    /\ InitDaemonVars

NextAnalyze == RunStep(CLIRun) \/ SyncStep \/ RemoteUpdate

SpecAnalyze == InitAnalyze /\ [][NextAnalyze]_vars

\* ================================================================ claims
Count(s, x) == Cardinality({i \in 1..Len(s) : s[i] = x})
Last(s) == s[Len(s)]

\* The three entry lists of the manifest at version v, as a set of names.
AllEntryNames(v) ==
    Range(Dockerfiles(v)) \cup Range(ServiceYmls(v)) \cup Range(DockerComposeYmls(v))

\* ------------------------------------------------------------------- C1
\* C1: a getTempaltes call that finds templates.json present with the version
\* of the manifest it fetched downloads no entry, writes nothing to the cache
\* directory and does no I/O beyond the one manifest fetch and the one local
\* read; and a call that follows a successful call with the same manifest
\* version downloads no entry.
C1_UpToDateCall == sync.tv >= 1 /\ sync.before[ManifestFile] = sync.tv

C1_IdempotentSync ==
    /\ C1_UpToDateCall =>
         /\ sync.entryFetches = 0
         /\ sync.dlCalls = 0
         /\ sync.written = {}
         /\ ~sync.mkdir
         /\ sync.manifestFetches = 1
         /\ sync.localReads <= 1
         /\ cache = sync.before /\ cacheDir = sync.beforeDir
         /\ sync.err \in {"", "readFile"}
    /\ (sync.prevTv >= 1 /\ sync.tv = sync.prevTv) => sync.entryFetches = 0

C1_Witness ==
    /\ syncCalls = 2 /\ sync.pc = "done" /\ sync.err = ""
    /\ C1_UpToDateCall /\ sync.prevTv = sync.tv /\ sync.localReads = 1

\* ------------------------------------------------------------------- C2
\* C2: a getTempaltes call that finds templates.json present with a version
\* other than the fetched manifest's and returns nil has written
\* templates.json and the file of every entry of the three lists of that
\* manifest.
C2_OutdatedCall ==
    /\ sync.pc = "done" /\ sync.err = ""
    /\ sync.before[ManifestFile] # Absent
    /\ sync.before[ManifestFile] # sync.tv

C2_VersionInvalidation ==
    C2_OutdatedCall =>
        /\ ManifestFile \in sync.written
        /\ AllEntryNames(sync.tv) \subseteq sync.written
        /\ \A f \in AllEntryNames(sync.tv) \cup {ManifestFile} : cache[f] >= 1

C2_Witness ==
    /\ C2_OutdatedCall /\ sync.before = CompleteCache(1) /\ sync.tv = 2
    /\ sync.written = {ManifestFile, "d1", "d2", "s1", "c1"}

\* ------------------------------------------------------------------- C8
\* C8 (as claimed): when a getTempaltes call has returned, the cache
\* directory is exactly as the call found it, or it holds templates.json and
\* every entry file of the fetched manifest version and no file of another
\* version.
C8_SingleVersion(v) ==
    /\ cache[ManifestFile] = v
    /\ \A f \in AllEntryNames(v) : cache[f] = v
    /\ \A f \in FileNames : cache[f] \in {Absent, v}

C8_AtomicSync ==
    sync.pc = "done" =>
        \/ cache = sync.before /\ cacheDir = sync.beforeDir
        \/ C8_SingleVersion(sync.tv)

\* ------------------------------------------------------------------- C3
\* The one-shot run.
R == run[CLIRun]
StepsDone == Range(R.steps)
\* File f was in the project directory when the process started.
Existed(f) == start.proj[CLIRun][f] # Absent
AlreadyExists == R.err \in {"DockerfileExists", "ServiceYmlExists"}

\* C3: once detection succeeded and the overwrite guard was evaluated, the
\* run has failed with AlreadyExists exactly when overwrite is false and
\* Dockerfile or service.yml existed (whatever the generator); the error
\* names a file that exists; in that case Analyze and the writers were not
\* called and nothing was written; with overwrite set the run reached Analyze.
C3_PastGuard ==
    /\ "DETECT" \in StepsDone /\ R.err # "detect"
    /\ R.pc \notin {"statDockerfile", "statServiceYAML"}

C3_OverwriteGuard ==
    C3_PastGuard =>
        /\ AlreadyExists <=>
             (~R.overwrite /\ (Existed("Dockerfile") \/ Existed("service.yml")))
        /\ R.err = "DockerfileExists" => Existed("Dockerfile")
        /\ R.err = "ServiceYmlExists" =>
             (Existed("service.yml") /\ ~Existed("Dockerfile"))
        /\ AlreadyExists =>
             /\ R.pc = "returned" /\ ~R.hasResult
             /\ "ANALYZE" \notin StepsDone
             /\ R.used = <<>>
             /\ proj = start.proj
        /\ R.overwrite => (R.pc = "analyze" \/ "ANALYZE" \in StepsDone)

C3_Witness ==
    /\ R.err = "ServiceYmlExists" /\ R.generator = Chars("dockerfile")
    /\ "DETECT" \in StepsDone /\ main.exit = 1

\* ------------------------------------------------------------------- C4
RECURSIVE SplitComma(_)
\* The tokens of s between its commas.
SplitComma(s) ==
    IF \A i \in 1..Len(s) : s[i] # ","
    THEN <<s>>
    ELSE LET i == CHOOSE k \in 1..Len(s) :
                    s[k] = "," /\ \A j \in 1..(k - 1) : s[j] # ","
         IN <<SubSeq(s, 1, i - 1)>> \o SplitComma(SubSeq(s, i + 1, Len(s)))

C4_KnownTokens == {Chars("dockerfile"), Chars("service"), Chars("docker-compose")}
C4_ValidSpec(g) == g = <<>> \/ Range(SplitComma(g)) \subseteq C4_KnownTokens
C4_Expected(g, w) == IF Chars(w) \in Range(SplitComma(g)) THEN 1 ELSE 0

\* C4: with a generator made of the tokens dockerfile, service and
\* docker-compose, no writer is ever called more often than the tokens ask
\* for, and a run that returned a result called the Dockerfile writer once,
\* the service writer once iff service is a token, and the compose writer
\* once iff docker-compose is a token.
C4_GeneratorSelection ==
    C4_ValidSpec(R.generator) =>
        /\ Count(R.steps, "WRITE_DOCKERFILE") <= 1
        /\ Count(R.steps, "WRITE_SERVICE") <= C4_Expected(R.generator, "service")
        /\ Count(R.steps, "WRITE_COMPOSE")
             <= C4_Expected(R.generator, "docker-compose")
        /\ R.ok =>
             /\ Count(R.steps, "WRITE_DOCKERFILE") = 1
             /\ Count(R.steps, "WRITE_SERVICE")
                  = C4_Expected(R.generator, "service")
             /\ Count(R.steps, "WRITE_COMPOSE")
                  = C4_Expected(R.generator, "docker-compose")
             /\ Len(R.used) = Count(R.steps, "WRITE_DOCKERFILE")
                  + Count(R.steps, "WRITE_SERVICE")
                  + Count(R.steps, "WRITE_COMPOSE")

C4_Witness ==
    /\ R.ok /\ R.generator = JoinComma(<<"dockerfile", "service">>)
    /\ proj[CLIRun]["service.yml"] = Written
    /\ proj[CLIRun]["docker-compose.yml"] = Absent
    /\ R.steps = <<"RESOLVE_TEMPLATES", "DETECT", "PRECHECK", "ANALYZE",
                   "WRITE_DOCKERFILE", "WRITE_SERVICE", "DONE">>

\* ------------------------------------------------------------------- C7
\* The collaborator operation behind each pipeline step.
StepOp ==
    {<<"ANALYZE", "Analyze">>,
     <<"WRITE_DOCKERFILE", "WriteDockerfile">>,
     <<"WRITE_SERVICE", "WriteServiceYAML">>,
     <<"WRITE_COMPOSE", "WriteDockerComposeYAML">>}
\* A collaborator operation that fails in this run has been called.
C7_CollaboratorFailed ==
    \/ "DETECT" \in StepsDone /\ R.detectFails
    \/ \E so \in StepOp : so[1] \in StepsDone /\ so[2] \in R.failing

C7_State ==
    /\ (C7_CollaboratorFailed \/ (sync.err # "" /\ R.pc # "sync")) => R.err # ""
    /\ R.err # "" =>
         /\ R.pc = "returned" /\ ~R.ok /\ ~R.hasResult
         /\ "DONE" \notin StepsDone
         /\ main.exit \in {NoExit, 1}
    /\ (main.cmd = "run" /\ main.exit = 0) =>
         (R.pc = "returned" /\ R.err = "" /\ Last(R.steps) = "DONE")
    /\ main.exit = 1 => R.err # ""
    /\ R.ok => (R.err = "" /\ R.hasResult)

C7_Step ==
    /\ R.err # "" =>
         (run' = run /\ proj' = proj /\ cache' = cache /\ cacheDir' = cacheDir
          /\ sync' = sync /\ tdirs' = tdirs)
    /\ sync.err # "" =>
         (sync' = sync /\ proj' = proj /\ cache' = cache /\ cacheDir' = cacheDir
          /\ run'[CLIRun].steps = R.steps /\ run'[CLIRun].used = R.used)

\* C7: a failing step makes the run return an error and no result; after it
\* no step runs and nothing is written; the process exits 1 then, exits 0
\* only after DONE, and ok is only set with a nil error.
C7_FailFast == []C7_State /\ [][C7_Step]_vars

C7_Witness ==
    /\ main.exit = 1 /\ R.err = "writeService"
    /\ proj[CLIRun]["Dockerfile"] = Written
    /\ proj[CLIRun]["service.yml"] = Absent

\* ------------------------------------------------------------------- C9
IsPrefix(s, t) == Len(s) <= Len(t) /\ SubSeq(t, 1, Len(s)) = s

\* The steps of a run with generator g that nothing stops.
C9_Canonical(g) ==
    <<"RESOLVE_TEMPLATES", "DETECT", "PRECHECK", "ANALYZE", "WRITE_DOCKERFILE">>
    \o (IF WantsService(g) THEN <<"WRITE_SERVICE">> ELSE <<>>)
    \o (IF WantsCompose(g) THEN <<"WRITE_COMPOSE">> ELSE <<>>)
    \o <<"DONE">>

\* The first failure, in pipeline order, of a run whose template resolution
\* succeeded; "" when no step fails.
C9_FirstFailure ==
    IF R.detectFails THEN "detect"
    ELSE IF ~R.overwrite /\ Existed("Dockerfile") THEN "DockerfileExists"
    ELSE IF ~R.overwrite /\ Existed("service.yml") THEN "ServiceYmlExists"
    ELSE IF "Analyze" \in R.failing THEN "analyze"
    ELSE IF "WriteDockerfile" \in R.failing THEN "writeDockerfile"
    ELSE IF WantsService(R.generator) /\ "WriteServiceYAML" \in R.failing
         THEN "writeService"
    ELSE IF WantsCompose(R.generator) /\ "WriteDockerComposeYAML" \in R.failing
         THEN "writeCompose"
    ELSE ""

\* The step at which each error is returned.
C9_StepOfError(e) ==
    CASE e = "getwd" -> "INIT"
      [] e \in {"abs", "sync"} -> "RESOLVE_TEMPLATES"
      [] e = "detect" -> "DETECT"
      [] e \in {"DockerfileExists", "ServiceYmlExists"} -> "PRECHECK"
      [] e = "analyze" -> "ANALYZE"
      [] e = "writeDockerfile" -> "WRITE_DOCKERFILE"
      [] e = "writeService" -> "WRITE_SERVICE"
      [] e = "writeCompose" -> "WRITE_COMPOSE"
      [] OTHER -> "DONE"

\* C9: the steps of a run are a prefix of the fixed order (each at most once,
\* none skipped), getTempaltes runs inside RESOLVE_TEMPLATES before DETECT,
\* and a run that returned stopped at the first step, in that order, that
\* fails, with that step's error.
C9_StepOrder ==
    /\ R.steps = <<"INIT">> \/ IsPrefix(R.steps, C9_Canonical(R.generator))
    /\ sync.pc # "idle" => "RESOLVE_TEMPLATES" \in StepsDone
    /\ sync.pc \notin {"idle", "done"} => R.steps = <<"RESOLVE_TEMPLATES">>
    /\ R.pc = "returned" =>
         /\ Last(R.steps) = C9_StepOfError(R.err)
         /\ R.err = "getwd" => main.flagPath = ""
         /\ R.err = "abs" => (main.flagTemplates # "" /\ sync.pc = "idle")
         /\ R.err = "sync" <=> sync.err # ""
         /\ R.err \notin {"getwd", "abs", "sync"} => R.err = C9_FirstFailure

C9_Witness ==
    /\ R.pc = "returned" /\ R.err = "sync" /\ sync.err = "copy"
    /\ R.detectFails /\ ~R.overwrite /\ Existed("Dockerfile")

\* ------------------------------------------------------------------ C10
\* C10 (as claimed): a run that failed with AlreadyExists left the project
\* directory and the template cache directory as they were.
C10_NoWritesAtAll ==
    AlreadyExists =>
        (proj = start.proj /\ cache = start.cache /\ cacheDir = start.cacheDir)

\* The cache held the manifest version that getTempaltes fetched.
C10_CacheCurrent == sync.tv >= 1 /\ start.cache[ManifestFile] = sync.tv

\* C10 (amended): a run that failed with AlreadyExists left the project
\* directory as it was and called no writer; it left the cache directory as
\* it was when an explicit template directory was given (getTempaltes is not
\* called) or when the cached templates.json had the fetched version.
C10_GuardWritesNoArtifacts ==
    AlreadyExists =>
        /\ proj = start.proj /\ R.used = <<>>
        /\ main.flagTemplates # "" => sync.pc = "idle"
        /\ (main.flagTemplates # "" \/ C10_CacheCurrent) =>
             /\ sync.written = {} /\ ~sync.mkdir
             /\ cache = start.cache /\ cacheDir = start.cacheDir

C10_Witness ==
    /\ AlreadyExists /\ main.flagTemplates = "" /\ C10_CacheCurrent
    /\ sync.pc = "done" /\ cache = CompleteCache(1)

\* ------------------------------------------------------------------- C5
\* C5: in daemon mode, once the API is started and an interrupt has been
\* delivered, the process eventually exits with code 0.
C5_InterruptLeadsToExit ==
    (main.pc \in {"spawn", "wait"} /\ interrupts > 0) ~> (main.exit = 0)

C5_Witness ==
    /\ main.exit = 0 /\ main.flagDaemon /\ interrupts = MaxInterrupts
    /\ sigTask = "range" /\ signalChan = 1

\* ------------------------------------------------------------------- C6
\* C6 (as claimed): when the daemon has exited with code 0, every run is not
\* started or has returned.
C6_NoPartialRunAtExit ==
    (main.flagDaemon /\ main.exit = 0) =>
        \A r \in RunIds : run[r].pc \in {"idle", "returned"}

\* ------------------------------------------------------------------ C11
\* The templates argument of the run was empty: line 308 replaces an empty
\* argument by the cache directory, a given one is kept.
C11_TemplatesEmpty == R.templates \in {"", HomeCache}
C11_SyncWanted == C11_TemplatesEmpty /\ R.updateTemplates

\* C11: a run called with a template directory or with updateTemplates =
\* false never enters getTempaltes: no manifest fetch, no entry download, no
\* local read, and the cache directory stays as it was; and a run past
\* RESOLVE_TEMPLATES has entered getTempaltes exactly when the template
\* argument was empty and updateTemplates was set.
C11_SyncOnlyWhenWanted ==
    /\ ~C11_SyncWanted =>
         /\ sync = SyncIdle
         /\ cache = start.cache /\ cacheDir = start.cacheDir
    /\ ("RESOLVE_TEMPLATES" \in StepsDone /\ R.err # "abs") =>
         (sync.pc # "idle" <=> C11_SyncWanted)

C11_Witness ==
    /\ R.pc = "returned" /\ R.ok /\ ~R.updateTemplates
    /\ R.templates = HomeCache /\ sync = SyncIdle
    /\ start.cache = InterruptedCache(1) /\ cache = start.cache
    /\ tdirs = AllDirs(HomeCache)

\* ------------------------------------------------------------------ C12
\* A download of the running getTempaltes call failed.
C12_DownloadFailed == sync.err \in {"fetch", "create", "copy"}
\* The file whose download is at position i (0 is templates.json).
C12_FileAt(s, i) == IF i = 0 THEN ManifestFile ELSE Entries(s.tv)[i]

C12_State ==
    (sync.pc = "done" /\ C12_DownloadFailed) =>
        LET es == Entries(sync.tv)
            k == sync.idx
        IN /\ sync.entryFetches = (sync.dlCalls - 1) * Len(es) + k
           /\ sync.manifestFetches = 1 + sync.dlCalls
           /\ k >= 1 => (ManifestFile \in sync.written /\ cache[ManifestFile] >= 1)
           /\ \A j \in 1..(k - 1) : es[j] \in sync.written /\ cache[es[j]] >= 1
           /\ sync.dlCalls = 1 =>
                \A j \in (k + 1)..Len(es) :
                    es[j] \notin sync.written /\ cache[es[j]] = sync.before[es[j]]
           /\ sync.err = "copy" => cache[C12_FileAt(sync, k)] = Truncated
           /\ (sync.err # "copy" /\ sync.dlCalls = 1) =>
                cache[C12_FileAt(sync, k)] = sync.before[C12_FileAt(sync, k)]

C12_Step ==
    /\ (sync.pc \in {"dlManifest", "dlEntry"} /\ sync'.err # "") =>
         /\ sync'.pc = "done"
         /\ \A f \in FileNames \ {C12_FileAt(sync, sync.idx)} : cache'[f] = cache[f]
    /\ (sync.pc = "done" /\ sync.err # "") =>
         (cache' = cache /\ cacheDir' = cacheDir /\ sync'.pc # "dlEntry")

\* C12: the first download of a full download that fails ends getTempaltes
\* with that error: no entry after it is fetched or written, the failing
\* step leaves every other file as it was, and the files written before it
\* stay in the directory.
C12_AbortKeepsWritten == []C12_State /\ [][C12_Step]_vars

C12_Witness ==
    /\ sync.pc = "done" /\ sync.err = "copy" /\ sync.call = 1 /\ sync.tv = 2
    /\ sync.idx = 2 /\ cache[ManifestFile] = 2 /\ cache["d1"] = 2
    /\ cache["d2"] = Truncated /\ cache["s1"] = Absent /\ cache["c1"] = Absent

\* ------------------------------------------------------------------ C13
\* C13 (as claimed): a getTempaltes call that found no templates.json and
\* returned nil created the directory and made exactly one full download:
\* templates.json written once, each entry of the fetched manifest fetched
\* once, no second download after the version comparison.
C13_ExactlyOneDownload ==
    (sync.pc = "done" /\ sync.err = "" /\ sync.before[ManifestFile] = Absent) =>
        /\ sync.mkdir /\ cacheDir
        /\ sync.dlCalls = 1
        /\ sync.manifestFetches = 2
        /\ sync.entryFetches = Len(Entries(sync.tv))

\* ------------------------------------------------------------------ C14
\* C14 (as claimed): after a getTempaltes call that downloaded and returned
\* nil, templates.json holds the manifest the call fetched at its start: the
\* version that was compared, listing exactly the entries that were
\* downloaded.
C14_StoredManifestIsFetched ==
    (sync.pc = "done" /\ sync.err = "" /\ sync.dlCalls >= 1) =>
        /\ cache[ManifestFile] = sync.tv
        /\ AllEntryNames(cache[ManifestFile]) = sync.written \ {ManifestFile}

\* ------------------------------------------------------------------ C15
\* C15 (as claimed): whenever a getTempaltes call has returned nil, every
\* entry named by the stored templates.json has its file in the directory
\* with the content of that manifest version.
C15_SuccessMeansComplete ==
    (sync.pc = "done" /\ sync.err = "") =>
        /\ cache[ManifestFile] >= 1
        /\ \A f \in AllEntryNames(cache[ManifestFile]) :
             cache[f] = cache[ManifestFile]

\* ------------------------------------------------------------------ C16
\* C16 (as claimed): every writer call of every run was given the template
\* directory that the same run resolved.
C16_OwnTemplateDir ==
    \A r \in RunIds : \A i \in 1..Len(run[r].used) :
        run[r].used[i][2] = run[r].resolved

\* ------------------------------------------------------------------ C17
\* C17: when fetchJSON of getTempaltes fails, getTempaltes ends with that
\* error having created and written nothing in the cache directory and not
\* having read the local manifest, and the run returns the sync error before
\* Detect, without calling a writer or touching the project directory,
\* whatever the cache holds.
C17_ManifestFetchFailureStops ==
    sync.err = "fetchJSON" =>
        /\ sync.pc = "done"
        /\ sync.tv = 0 /\ sync.manifestFetches = 0 /\ sync.localReads = 0
        /\ sync.entryFetches = 0 /\ sync.dlCalls = 0
        /\ sync.written = {} /\ ~sync.mkdir
        /\ cache = start.cache /\ cacheDir = start.cacheDir
        /\ R.pc \in {"sync", "returned"}
        /\ R.pc = "returned" => (R.err = "sync" /\ ~R.hasResult)
        /\ "DETECT" \notin StepsDone /\ R.used = <<>>
        /\ proj = start.proj /\ tdirs = AllDirs("")
        /\ main.exit \in {NoExit, 1}

C17_Witness ==
    /\ sync.err = "fetchJSON" /\ start.cache = CompleteCache(1)
    /\ R.pc = "returned" /\ R.err = "sync" /\ main.exit = 1
    /\ ~R.detectFails /\ R.overwrite

\* ------------------------------------------------------------------ C18
\* C18: a run that succeeded returns as warnings exactly the messages of the
\* pack, in their order; messages do not make a run fail: a run in which no
\* step fails returns ok with a nil error whatever the messages, and the
\* process then exits with code 0; a failed run returns no warnings.
C18_WarningsAreMessages ==
    /\ R.ok => (R.warnings = R.messages /\ R.err = "" /\ R.hasResult)
    /\ ~R.ok => R.warnings = <<>>
    /\ (R.pc = "returned" /\ R.err \notin {"getwd", "abs", "sync"}
          /\ C9_FirstFailure = "") => R.ok
    /\ (R.ok /\ main.pc = "exited") => main.exit = 0

C18_Witness ==
    /\ R.ok /\ main.exit = 0
    /\ R.messages = <<"analyze", "dockerfile", "compose">>
    /\ R.warnings = R.messages

\* ------------------------------------------------------------------ C19
C19_State ==
    main.flagDaemon =>
        /\ main.exit \in {NoExit, 0, 1}
        /\ main.exit = 0 =>
             (interrupts > 0 /\ main.notify /\ sigTask # "none" /\ ~main.killed)
        /\ main.exit = 1 => (sigTask = "none" /\ ~main.killed)
        /\ sigTask = "send" => interrupts > 0
        /\ main.pc = "exit0" => interrupts > 0
        /\ sigTask # "none" => main.pc \in {"wait", "exit0", "exited"}

C19_Step ==
    main.flagDaemon =>
        /\ (main.pc = "wait" /\ main'.pc # "wait") =>
             (sigTask = "send" /\ sigTask' = "range" /\ main'.pc = "exit0")
        /\ (main.exit # 0 /\ main'.exit = 0) => main.pc = "exit0"
        /\ (main.exit # 1 /\ main'.exit = 1) =>
             (main.pc \in {"start", "startAPI"} /\ sigTask' = "none")
        /\ (main.pc # "exited" /\ main'.pc = "exited" /\ ~Listening
              /\ ~main'.killed) => main'.exit = 1

\* C19: the daemon exits with code 0 only after an interrupt was delivered
\* and the signal goroutine sent on cleanupDone; the exits it makes before
\* the API is started are the failures of the configuration and of StartAPI,
\* with code 1 and without the signal goroutine; once waiting, main leaves
\* the wait only by the handshake with the signal goroutine.
C19_ExitZeroOnlyAfterInterrupt == []C19_State /\ [][C19_Step]_vars

C19_Witness ==
    /\ main.flagDaemon /\ main.flagConfig = "conf" /\ main.exit = 0
    /\ interrupts = 1 /\ signalChan = 0 /\ sigTask = "range"

====
